---- MODULE Spec2Model ----
(***************************************************************************)
(* TutorBot (src/teachbot.py): an in-memory document store with an ingest  *)
(* handler, a chat handler, a brute-force cosine retriever and a word      *)
(* window chunker.                                                         *)
(*                                                                         *)
(* Strings whose content the code inspects (text, question, chunks) are    *)
(* sequences of one-character strings, so that split / join / strip are    *)
(* computed and not assumed.  Vectors are pairs of integers; a score is    *)
(* the cosine in units of 1/ScoreScale.                                    *)
(***************************************************************************)
EXTENDS Integers, Sequences, FiniteSets, TLC

VARIABLES stored_docs, doc_counter, last, ck, commit_atomic, thr

vars == <<stored_docs, doc_counter, last, ck, commit_atomic, thr>>

----------------------------------------------------------------------------
(* Bounds of the model *)

MaxDocs == 2

MaxK == 4

MaxWords == 5

MaxWindow == 3

(* Program constants *)

DefaultMaxWords == 200

DefaultOverlap == 40

ChatK == 5

ScoreScale == 1000

----------------------------------------------------------------------------
(* Python string and list primitives *)

Min(a, b) == IF a < b THEN a ELSE b

Max(a, b) == IF a > b THEN a ELSE b

IsSpace(c) == c \in {" ", "\n"}

\* s[lo:hi] of Python, 0-based, negative indices counted from the end.
PySlice(s, lo, hi) ==
  LET n  == Len(s)
      nl == IF lo < 0 THEN Max(0, n + lo) ELSE Min(lo, n)
      nh == IF hi < 0 THEN Max(0, n + hi) ELSE Min(hi, n)
  IN  SubSeq(s, nl + 1, nh)

RECURSIVE LStrip(_)
LStrip(s) ==
  IF s = <<>> THEN <<>>
  ELSE IF IsSpace(Head(s)) THEN LStrip(Tail(s)) ELSE s

RECURSIVE RStrip(_)
RStrip(s) ==
  IF s = <<>> THEN <<>>
  ELSE IF IsSpace(s[Len(s)]) THEN RStrip(SubSeq(s, 1, Len(s) - 1)) ELSE s

\* Mutant: the text is not stripped.
NoStrip(s) == s

\* str.strip()
Strip(s) == RStrip(LStrip(s))

\* str.split(): the maximal runs of non-whitespace characters, in order.
\* Computed by halves: a run that crosses the middle is glued back together.
RECURSIVE Split(_)
Split(s) ==
  IF s = <<>> THEN <<>>
  ELSE IF Len(s) = 1 THEN (IF IsSpace(s[1]) THEN <<>> ELSE <<s>>)
  ELSE LET m  == Len(s) \div 2
           wl == Split(SubSeq(s, 1, m))
           wr == Split(SubSeq(s, m + 1, Len(s)))
       IN  IF ~IsSpace(s[m]) /\ ~IsSpace(s[m + 1])
           THEN SubSeq(wl, 1, Len(wl) - 1) \o <<wl[Len(wl)] \o wr[1]>> \o Tail(wr)
           ELSE wl \o wr

\* " ".join(ws)
RECURSIVE Join(_)
Join(ws) ==
  IF ws = <<>> THEN <<>>
  ELSE IF Len(ws) = 1 THEN ws[1]
  ELSE LET m == Len(ws) \div 2
       IN  Join(SubSeq(ws, 1, m)) \o <<" ">> \o Join(SubSeq(ws, m + 1, Len(ws)))

----------------------------------------------------------------------------
(* chunk_text *)

\* One pass of the loop body: the chunk built at window start i.
WindowChunk(words, i, max_words) == Join(PySlice(words, i, i + max_words))

\* Mutant: the window advances by its full width, without overlap.
NextStartNoOverlap(i, max_words, overlap) == i + max_words

\* Mutant: the advance is forced to be at least one word.
NextStartAtLeastOne(i, max_words, overlap) == i + Max(1, max_words - overlap)

\* The advance of the window start.
NextStart(i, max_words, overlap) == i + max_words - overlap

\* Mutant: the loop runs once more, at i = len(words).
LoopCondInclusive(words, i) == i <= Len(words)

\* The loop condition.
LoopCond(words, i) == i < Len(words)

RECURSIVE ChunkLoop(_, _, _, _, _)
ChunkLoop(words, i, chunks, max_words, overlap) ==
  IF LoopCond(words, i)
  THEN ChunkLoop(words, NextStart(i, max_words, overlap),
                 Append(chunks, WindowChunk(words, i, max_words)),
                 max_words, overlap)
  ELSE chunks

\* chunk_text(text, max_words, overlap); only evaluated where the loop ends.
chunk_text(text, max_words, overlap) ==
  ChunkLoop(Split(text), 0, <<>>, max_words, overlap)

----------------------------------------------------------------------------
(* Embeddings and cosine_sim *)

\* Vectors the embedding provider may return for a chunk (the zero vector included).
Vectors == { <<0, 0>>, <<1, 0>> }

\* A wider choice of chunk vectors, for the stores retrieve_top_k is applied to.
RetrieveVectors == Vectors \cup { <<0, 1>> }

\* Vectors the provider may return for a query.
QueryVectors == { <<0, 0>>, <<1, 0>>, <<1, 1>>, <<-1, 0>> }

NoneVec == <<>>

Dot(a, b) == a[1] * b[1] + a[2] * b[2]

RECURSIVE ISqrtLoop(_, _, _)
ISqrtLoop(n, lo, hi) ==
  IF lo >= hi THEN lo
  ELSE LET mid == (lo + hi + 1) \div 2
       IN  IF mid * mid <= n THEN ISqrtLoop(n, mid, hi) ELSE ISqrtLoop(n, lo, mid - 1)

\* The integer square root of n, for n <= ScoreScale^2.
ISqrt(n) == ISqrtLoop(n, 0, ScoreScale)

\* cosine_sim(a, b) in units of 1/ScoreScale; -1.0 for None or a zero norm.
cosine_sim(a, b) ==
  IF a = NoneVec \/ b = NoneVec THEN -ScoreScale
  ELSE LET an2 == Dot(a, a)
           bn2 == Dot(b, b)
           d   == Dot(a, b)
       IN  IF an2 = 0 \/ bn2 = 0 THEN -ScoreScale
           ELSE LET mag == ISqrt((d * d * ScoreScale * ScoreScale) \div (an2 * bn2))
                IN  IF d < 0 THEN -mag ELSE mag

\* What embed_texts(texts) can do on n texts: raise, or one vector per text.
EmbedOutcomes(n, vs) ==
  { [ok |-> FALSE, embs |-> <<>>] } \cup { [ok |-> TRUE, embs |-> e] : e \in [1..n -> vs] }

----------------------------------------------------------------------------
(* retrieve_top_k *)

\* The candidates of one document, in chunk order.
DocCandidates(doc, q_emb) ==
  [i \in 1..Len(doc.embs) |->
     [chunk |-> doc.chunks[i], score |-> cosine_sim(q_emb, doc.embs[i]), doc_id |-> doc.id]]

\* The nested loops: every chunk of every document, in store order.
RECURSIVE Candidates(_, _)
Candidates(docs, q_emb) ==
  IF docs = <<>> THEN <<>>
  ELSE DocCandidates(Head(docs), q_emb) \o Candidates(Tail(docs), q_emb)

\* Mutant: c goes before the elements of equal score (an unstable descending sort).
RECURSIVE InsertBeforeTies(_, _)
InsertBeforeTies(sorted, c) ==
  IF sorted = <<>> THEN <<c>>
  ELSE IF Head(sorted).score > c.score
       THEN <<Head(sorted)>> \o InsertBeforeTies(Tail(sorted), c)
       ELSE <<c>> \o sorted

\* Insert c after every element whose score is >= c's (keeps equal scores in order).
RECURSIVE InsertDesc(_, _)
InsertDesc(sorted, c) ==
  IF sorted = <<>> THEN <<c>>
  ELSE IF Head(sorted).score >= c.score
       THEN <<Head(sorted)>> \o InsertDesc(Tail(sorted), c)
       ELSE <<c>> \o sorted

RECURSIVE SortFrom(_, _)
SortFrom(cs, sorted) ==
  IF cs = <<>> THEN sorted ELSE SortFrom(Tail(cs), InsertDesc(sorted, Head(cs)))

\* candidates.sort(key=score, reverse=True): a stable sort, descending.
SortByScoreDesc(cs) == SortFrom(cs, <<>>)

\* The part of retrieve_top_k after the query was embedded.
RankAndCut(docs, q_emb, k) == PySlice(SortByScoreDesc(Candidates(docs, q_emb)), 0, k)

----------------------------------------------------------------------------
(* Requests *)

Absent == [present |-> FALSE, val |-> <<>>]

Given(v) == [present |-> TRUE, val |-> v]

\* payload.get(key, default)
Get(opt, default) == IF opt.present THEN opt.val ELSE default

\* n copies of the word w, separated by single spaces.
Repeat(w, n) == Join([i \in 1..n |-> w])

\* A text of one word more than the default window advance.
LongText == Repeat(<<"a">>, DefaultMaxWords - DefaultOverlap + 1)

AbsentStr == [present |-> FALSE, val |-> ""]

NoPayload == [text |-> Absent, title |-> AbsentStr, question |-> Absent, style |-> AbsentStr]

IngestPayloads ==
  { NoPayload,
    [NoPayload EXCEPT !.text = Given(<<>>)],
    [NoPayload EXCEPT !.text = Given(<<" ", "\n">>)],
    [NoPayload EXCEPT !.text = Given(<<"a">>), !.title = Given("notes")],
    [NoPayload EXCEPT !.text = Given(<<" ", "a", " ", " ", "b", "\n">>)],
    [NoPayload EXCEPT !.text = Given(LongText)] }

ChatPayloads ==
  { NoPayload,
    [NoPayload EXCEPT !.question = Given(<<" ">>)],
    [NoPayload EXCEPT !.question = Given(<<" ", "q">>), !.style = Given("Socratic")],
    [NoPayload EXCEPT !.question = Given(<<"q">>)] }

\* The observation of the last request: what was asked, what was answered and
\* which remote calls were made on the way.
NoLast ==
  [op |-> "none", payload |-> NoPayload, kind |-> "none", status |-> 0, ok |-> FALSE,
   error |-> "", doc_id |-> -1, num_chunks |-> -1, answer |-> "", retrieved |-> <<>>,
   calls |-> <<>>, source_text |-> [header |-> "", entries |-> <<>>], k |-> 0,
   q_emb |-> NoneVec]

\* jsonify(body), status
JsonResponse(op, payload, status, calls) ==
  [NoLast EXCEPT !.op = op, !.payload = payload, !.kind = "json", !.status = status,
                 !.calls = calls]

\* An exception that leaves the handler: the framework answers 500, not JSON.
Unhandled(op, payload, calls) ==
  [NoLast EXCEPT !.op = op, !.payload = payload, !.kind = "unhandled", !.status = 500,
                 !.calls = calls]

----------------------------------------------------------------------------
(* The ingest handler *)

\* `if not text`
IsBlank(text) == text = <<>>

\* The document built from the counter, the request and the derived data.
NewDoc(counter, title, text, chunks, embs) ==
  [id |-> counter, title |-> title, text |-> text, chunks |-> chunks, embs |-> embs]

\* stored_docs.append(doc)
AppendDoc(docs, doc) == Append(docs, doc)

\* Mutant: the increment is forgotten.
NoIncrement(loaded) == loaded

\* doc_counter += 1, from the value of the counter that was loaded
Increment(loaded) == loaded + 1

\* stored_docs.append(doc); doc_counter += 1, with nothing running in between
StoreAfterIngest(docs, counter, doc) ==
  [docs |-> AppendDoc(docs, doc), counter |-> Increment(counter)]

\* Mutant: the document is appended before its chunks are embedded.
AppendBeforeEmbed(docs, counter, title, text, chunks) ==
  [docs |-> Append(docs, NewDoc(counter, title, text, chunks, <<>>)), counter |-> counter]

\* Store and counter when embed_texts raised: nothing was touched yet.
StoreAfterEmbedFailure(docs, counter, title, text, chunks) ==
  [docs |-> docs, counter |-> counter]

\* The success response of ingest.
IngestOk(payload, doc) ==
  [JsonResponse("ingest", payload, 200, <<"embed">>) EXCEPT
     !.ok = TRUE, !.doc_id = doc.id, !.num_chunks = Len(doc.chunks)]

\* The response of ingest on a blank text, and the calls made before it.
IngestRejected(payload) ==
  [JsonResponse("ingest", payload, 400, <<>>) EXCEPT !.error = "No text provided."]

Ingest ==
  \E payload \in IngestPayloads :
    LET text  == Strip(Get(payload.text, <<>>))
        title == Get(payload.title, "doc_<time>")
    IN  IF IsBlank(text)
        THEN /\ last' = IngestRejected(payload)
             /\ UNCHANGED <<stored_docs, doc_counter>>
        ELSE LET chunks == chunk_text(text, DefaultMaxWords, DefaultOverlap)
             IN  \E out \in EmbedOutcomes(Len(chunks), Vectors) :
                   IF ~out.ok
                   THEN LET st == StoreAfterEmbedFailure(stored_docs, doc_counter,
                                                         title, text, chunks)
                        IN  /\ stored_docs' = st.docs
                            /\ doc_counter' = st.counter
                            /\ last' = Unhandled("ingest", payload, <<"embed">>)
                   ELSE LET doc == NewDoc(doc_counter, title, text, chunks, out.embs)
                            st  == StoreAfterIngest(stored_docs, doc_counter, doc)
                        IN  /\ Len(stored_docs) < MaxDocs
                            /\ stored_docs' = st.docs
                            /\ doc_counter' = st.counter
                            /\ last' = IngestOk(payload, doc)

----------------------------------------------------------------------------
(* The chat handler *)

\* Mutant: the query is embedded before the store is looked at.
RetrieveAlwaysEmbeds(docs, out, k) ==
  IF ~out.ok THEN [raised |-> TRUE, result |-> <<>>, calls |-> <<"embed">>]
  ELSE [raised |-> FALSE, result |-> RankAndCut(docs, out.embs[1], k),
        calls |-> <<"embed">>]

\* retrieve_top_k(query, k), given what the embedding call does if it is made.
retrieve_top_k(docs, out, k) ==
  IF docs = <<>> THEN [raised |-> FALSE, result |-> <<>>, calls |-> <<>>]
  ELSE IF ~out.ok THEN [raised |-> TRUE, result |-> <<>>, calls |-> <<"embed">>]
  ELSE [raised |-> FALSE, result |-> RankAndCut(docs, out.embs[1], k),
        calls |-> <<"embed">>]

\* f"{score:.3f}": the score in thousandths.
Format3(score) == (score * 1000) \div ScoreScale

\* The source section of the prompt.
SourceText(retrieved) ==
  IF retrieved # <<>>
  THEN [header  |-> "--- Retrieved Chunks (most relevant first) ---",
        entries |-> [i \in 1..Len(retrieved) |->
                       [score |-> Format3(retrieved[i].score), chunk |-> retrieved[i].chunk]]]
  ELSE [header |-> "No documents ingested.", entries |-> <<>>]

\* What the handler does with an exception of the query embedding call.
OnQueryEmbedError(payload, calls) == Unhandled("chat", payload, calls)

\* The except clause around the chat completion call.
OnChatError(payload, calls, source) ==
  [JsonResponse("chat", payload, 500, calls) EXCEPT
     !.error = "OpenAI API error", !.source_text = source]

ChatOk(payload, calls, source, retrieved) ==
  [JsonResponse("chat", payload, 200, calls) EXCEPT
     !.ok = TRUE, !.answer = "answer", !.retrieved = retrieved, !.source_text = source]

ChatRejected(payload) ==
  [JsonResponse("chat", payload, 400, <<>>) EXCEPT !.error = "No question provided."]

Chat ==
  /\ \E payload \in ChatPayloads :
       LET question == Strip(Get(payload.question, <<>>))
           style    == Get(payload.style, "Concise")
       IN  IF IsBlank(question)
           THEN last' = ChatRejected(payload)
           ELSE \E out \in EmbedOutcomes(1, QueryVectors), chat_ok \in BOOLEAN :
                  LET r == retrieve_top_k(stored_docs, out, ChatK)
                  IN  IF r.raised
                      THEN last' = OnQueryEmbedError(payload, r.calls)
                      ELSE LET source == SourceText(r.result)
                               calls  == Append(r.calls, "chat")
                           IN  IF chat_ok
                               THEN last' = [ChatOk(payload, calls, source, r.result)
                                               EXCEPT !.k = ChatK]
                               ELSE last' = [OnChatError(payload, calls, source)
                                               EXCEPT !.k = ChatK]
  /\ UNCHANGED <<stored_docs, doc_counter>>

----------------------------------------------------------------------------
(* The sequential server: one handler at a time, each run to its end. *)

IdleCk == [pc |-> "idle", text |-> <<>>, words |-> <<>>, max_words |-> 0, overlap |-> 0,
           i |-> 0, chunks |-> <<>>, iters |-> 0]

IdleThr == << >>

Init ==
  /\ stored_docs = <<>>
  /\ doc_counter = 0
  /\ last = NoLast
  /\ ck = IdleCk
  /\ commit_atomic = TRUE
  /\ thr = IdleThr

IngestRequest == Ingest /\ UNCHANGED <<ck, commit_atomic, thr>>

ChatRequest == Chat /\ UNCHANGED <<ck, commit_atomic, thr>>

Next == IngestRequest \/ ChatRequest

Spec == Init /\ [][Next]_vars

----------------------------------------------------------------------------
(* retrieve_top_k applied to every store the handlers can build *)

\* The documents ingest can append when the counter is `counter`.
DocsFor(counter, vs) ==
  UNION { LET text   == Strip(Get(payload.text, <<>>))
              title  == Get(payload.title, "doc_<time>")
              chunks == chunk_text(text, DefaultMaxWords, DefaultOverlap)
          IN  IF IsBlank(text) THEN {}
              ELSE { NewDoc(counter, title, text, chunks, e) :
                       e \in [1..Len(chunks) -> vs] }
        : payload \in IngestPayloads }

\* The stores of at most n documents that successive ingests build.
RECURSIVE Stores(_, _)
Stores(n, vs) ==
  IF n = 0 THEN { <<>> }
  ELSE LET prev == Stores(n - 1, vs)
       IN  prev \cup UNION { { StoreAfterIngest(st, Len(st), d).docs :
                                 d \in DocsFor(Len(st), vs) }
                             : st \in { x \in prev : Len(x) = n - 1 } }

InitRetrieve ==
  /\ stored_docs \in Stores(MaxDocs, RetrieveVectors)
  /\ doc_counter = Len(stored_docs)
  /\ last = NoLast
  /\ ck = IdleCk
  /\ commit_atomic = TRUE
  /\ thr = IdleThr

\* A call retrieve_top_k(query, k).
RetrieveCall ==
  /\ last.op = "none"
  /\ \E k \in 0..MaxK, out \in EmbedOutcomes(1, QueryVectors) :
       LET r == retrieve_top_k(stored_docs, out, k)
       IN  last' = [NoLast EXCEPT !.op = "retrieve", !.k = k,
                                  !.q_emb = IF out.ok THEN out.embs[1] ELSE NoneVec,
                                  !.kind = IF r.raised THEN "unhandled" ELSE "return",
                                  !.retrieved = r.result, !.calls = r.calls]
  /\ UNCHANGED <<stored_docs, doc_counter, ck, commit_atomic, thr>>

NextRetrieve == RetrieveCall

SpecRetrieve == InitRetrieve /\ [][NextRetrieve]_vars

\* Every store of the sequential server is one of Stores.
StoreIsBuilt == stored_docs \in Stores(MaxDocs, Vectors)

----------------------------------------------------------------------------
(* chunk_text run one loop iteration at a time *)

Letters == <<"a", "b", "c", "d", "e", "f", "g", "h">>

\* n different one-letter words.
SomeWords(n) == [i \in 1..n |-> <<Letters[i]>>]

\* The words joined by single spaces, or with whitespace before, between and after.
RECURSIVE MessyJoin(_)
MessyJoin(ws) ==
  IF ws = <<>> THEN <<" ", "\n">> ELSE <<" ">> \o Head(ws) \o <<" ">> \o MessyJoin(Tail(ws))

SmallTexts ==
  { Join(SomeWords(n)) : n \in 0..MaxWords } \cup { MessyJoin(SomeWords(n)) : n \in 0..MaxWords }

\* Texts around the default window: 160, 161 and 200 words.
DefaultTexts ==
  { Repeat(<<"a">>, n) :
      n \in { DefaultMaxWords - DefaultOverlap, DefaultMaxWords - DefaultOverlap + 1,
              DefaultMaxWords } }

ChunkInputs ==
  (SmallTexts \X (1..MaxWindow) \X (0..MaxWindow))
    \cup (DefaultTexts \X {DefaultMaxWords} \X {DefaultOverlap})

\* No run of the model takes more loop iterations than this.
IterCap == 2 * MaxWords + 2

InitChunk ==
  /\ ck \in { [IdleCk EXCEPT !.pc = "call", !.text = in[1], !.max_words = in[2],
                             !.overlap = in[3]] : in \in ChunkInputs }
  /\ stored_docs = <<>>
  /\ doc_counter = 0
  /\ last = NoLast
  /\ commit_atomic = TRUE
  /\ thr = IdleThr

\* words = text.split(); chunks = []; i = 0
ChunkEnter ==
  /\ ck.pc = "call"
  /\ ck' = [ck EXCEPT !.pc = "loop", !.words = Split(ck.text), !.chunks = <<>>, !.i = 0]
  /\ UNCHANGED <<stored_docs, doc_counter, last, commit_atomic, thr>>

\* One iteration of the while loop.
ChunkIterate ==
  /\ ck.pc = "loop"
  /\ LoopCond(ck.words, ck.i)
  /\ ck.iters < IterCap
  /\ ck' = [ck EXCEPT !.chunks = Append(ck.chunks, WindowChunk(ck.words, ck.i, ck.max_words)),
                      !.i = NextStart(ck.i, ck.max_words, ck.overlap),
                      !.iters = ck.iters + 1]
  /\ UNCHANGED <<stored_docs, doc_counter, last, commit_atomic, thr>>

\* The loop condition fails: return chunks.
ChunkReturn ==
  /\ ck.pc = "loop"
  /\ ~LoopCond(ck.words, ck.i)
  /\ ck' = [ck EXCEPT !.pc = "done"]
  /\ UNCHANGED <<stored_docs, doc_counter, last, commit_atomic, thr>>

NextChunk == ChunkEnter \/ ChunkIterate \/ ChunkReturn

SpecChunk == InitChunk /\ [][NextChunk]_vars

\* The loop is the only thing that runs: a step that can be taken is taken.
FairSpecChunk == SpecChunk /\ WF_vars(NextChunk)

\* The loop run step by step returns what chunk_text computes.
LoopIsChunkText ==
  ck.pc = "done" => ck.chunks = chunk_text(ck.text, ck.max_words, ck.overlap)

----------------------------------------------------------------------------
(* Ingest handlers on the threads of a server, one statement at a time *)

Threads == {"t1", "t2"}

ConcPayloads ==
  { NoPayload,
    [NoPayload EXCEPT !.text = Given(<<"a">>), !.title = Given("notes")],
    [NoPayload EXCEPT !.text = Given(<<" ", "a", " ", " ", "b", "\n">>)] }

NoDoc == NewDoc(-1, "", <<>>, <<>>, <<>>)

IdleThread ==
  [pc |-> "idle", payload |-> NoPayload, title |-> "", text |-> <<>>, chunks |-> <<>>,
   embs |-> <<>>, doc |-> NoDoc, loaded |-> 0, resp |-> NoLast]

\* A thread that read the counter into its document and has not yet stored
\* the incremented counter.
InCommit(u) == thr[u].pc \in {"l89", "l90_load", "l90_store"}

\* Mutant: nothing keeps the three statements together.
CanStepAlways(t) == TRUE

\* Whether thread t may take its next step: always, unless the statements
\* `doc = {...doc_counter...}; stored_docs.append(doc); doc_counter += 1`
\* run as one unit and another thread is inside them.
CanStep(t) == ~commit_atomic \/ \A u \in Threads \ {t} : ~InCommit(u)

\* Documents appended or about to be.
Pending == { u \in Threads : thr[u].pc \in {"l88", "l89"} }

InitConc ==
  /\ stored_docs = <<>>
  /\ doc_counter = 0
  /\ last = NoLast
  /\ ck = IdleCk
  /\ commit_atomic \in BOOLEAN
  /\ thr = [t \in Threads |-> IdleThread]

\* Lines 80-87: read the payload, validate, chunk and embed. No shared state.
Prepare(t) ==
  /\ thr[t].pc = "idle"
  /\ CanStep(t)
  /\ Len(stored_docs) + Cardinality(Pending) < MaxDocs
  /\ \E payload \in ConcPayloads :
       LET text  == Strip(Get(payload.text, <<>>))
           title == Get(payload.title, "doc_<time>")
       IN  IF IsBlank(text)
           THEN thr' = [thr EXCEPT ![t] = [IdleThread EXCEPT !.resp = IngestRejected(payload)]]
           ELSE LET chunks == chunk_text(text, DefaultMaxWords, DefaultOverlap)
                IN  \E out \in EmbedOutcomes(Len(chunks), {<<1, 0>>}) :
                      IF ~out.ok
                      THEN thr' = [thr EXCEPT ![t] =
                                     [IdleThread EXCEPT
                                        !.resp = Unhandled("ingest", payload, <<"embed">>)]]
                      ELSE thr' = [thr EXCEPT ![t] =
                                     [IdleThread EXCEPT !.pc = "l88", !.payload = payload,
                                                        !.title = title, !.text = text,
                                                        !.chunks = chunks, !.embs = out.embs]]
  /\ UNCHANGED <<stored_docs, doc_counter, last, ck, commit_atomic>>

\* Line 88: the document is built; doc_counter is read.
BuildDoc(t) ==
  /\ thr[t].pc = "l88"
  /\ CanStep(t)
  /\ thr' = [thr EXCEPT ![t].pc = "l89",
                        ![t].doc = NewDoc(doc_counter, thr[t].title, thr[t].text,
                                          thr[t].chunks, thr[t].embs)]
  /\ UNCHANGED <<stored_docs, doc_counter, last, ck, commit_atomic>>

\* Line 89
AppendStep(t) ==
  /\ thr[t].pc = "l89"
  /\ CanStep(t)
  /\ stored_docs' = AppendDoc(stored_docs, thr[t].doc)
  /\ thr' = [thr EXCEPT ![t].pc = "l90_load"]
  /\ UNCHANGED <<doc_counter, last, ck, commit_atomic>>

\* Line 90, the load of doc_counter
LoadCounter(t) ==
  /\ thr[t].pc = "l90_load"
  /\ CanStep(t)
  /\ thr' = [thr EXCEPT ![t].pc = "l90_store", ![t].loaded = doc_counter]
  /\ UNCHANGED <<stored_docs, doc_counter, last, ck, commit_atomic>>

\* Line 90, the store of the incremented value
StoreCounter(t) ==
  /\ thr[t].pc = "l90_store"
  /\ CanStep(t)
  /\ doc_counter' = Increment(thr[t].loaded)
  /\ thr' = [thr EXCEPT ![t].pc = "l91"]
  /\ UNCHANGED <<stored_docs, last, ck, commit_atomic>>

\* Line 91
ReturnStep(t) ==
  /\ thr[t].pc = "l91"
  /\ CanStep(t)
  /\ thr' = [thr EXCEPT ![t] = [IdleThread EXCEPT
                                  !.resp = IngestOk(thr[t].payload, thr[t].doc)]]
  /\ UNCHANGED <<stored_docs, doc_counter, last, ck, commit_atomic>>

NextConc ==
  \E t \in Threads :
    \/ Prepare(t)
    \/ BuildDoc(t)
    \/ AppendStep(t)
    \/ LoadCounter(t)
    \/ StoreCounter(t)
    \/ ReturnStep(t)

SpecConc == InitConc /\ [][NextConc]_vars

----------------------------------------------------------------------------
(* Properties of the sequential server (Spec) *)

\* A text that is absent, empty or whitespace only.
BlankRequestText(payload) ==
  ~payload.text.present
    \/ \A i \in 1..Len(payload.text.val) : IsSpace(payload.text.val[i])

\* Every stored document is complete: it has its text, at least one chunk,
\* the chunks of that text, and one embedding per chunk.
DocsComplete ==
  \A i \in 1..Len(stored_docs) :
    LET d == stored_docs[i]
    IN  /\ d.text # <<>>
        /\ Len(d.chunks) >= 1
        /\ d.chunks = chunk_text(d.text, DefaultMaxWords, DefaultOverlap)
        /\ Len(d.embs) = Len(d.chunks)
        /\ \A j \in 1..Len(d.embs) : d.embs[j] \in Vectors

\* A step that is an ingest call which did not succeed.
FailedIngestStep == last'.op = "ingest" /\ ~last'.ok

\* C1: ingest is all-or-nothing. An ingest call that fails (the embedding
\* provider raises, or the text is rejected) leaves the document store and the
\* id counter as they were, and no reachable store holds a partially built
\* document.
C1_IngestAllOrNothing ==
  /\ []DocsComplete
  /\ [][FailedIngestStep => UNCHANGED <<stored_docs, doc_counter>>]_vars

\* An ingest whose embedding call raised, on a store that already holds a document.
C1_Witness ==
  /\ last.op = "ingest"
  /\ last.kind = "unhandled"
  /\ last.calls = <<"embed">>
  /\ Len(stored_docs) >= 1

\* C2: the id counter equals the number of stored documents, the document at
\* position i of the store has id i (counting from 0), and a successful ingest
\* reports the id of the document it appended: the n-th successful ingest gets
\* doc_id n-1 whatever failed ingests and chat calls happened in between.
C2_IdsFollowCallOrder ==
  /\ doc_counter = Len(stored_docs)
  /\ \A i \in 1..Len(stored_docs) : stored_docs[i].id = i - 1
  /\ (last.op = "ingest" /\ last.ok) =>
       /\ stored_docs # <<>>
       /\ last.doc_id = Len(stored_docs) - 1
       /\ last.doc_id = stored_docs[Len(stored_docs)].id

\* The second successful ingest has reported doc_id 1.
C2_Witness ==
  /\ last.op = "ingest"
  /\ last.ok
  /\ last.doc_id = 1
  /\ Len(stored_docs) = 2

\* C3: an ingest call whose text is missing, empty or whitespace only answers
\* {ok: false, error: "No text provided."} with status 400, makes no remote
\* call, and leaves the stored documents and the id counter unchanged.
C3_BlankTextRejected ==
  [][(last'.op = "ingest" /\ BlankRequestText(last'.payload)) =>
       /\ last'.kind = "json"
       /\ last'.status = 400
       /\ ~last'.ok
       /\ last'.error = "No text provided."
       /\ last'.calls = <<>>
       /\ UNCHANGED <<stored_docs, doc_counter>>]_vars

\* A whitespace-only text was rejected on a store that holds a document.
C3_Witness ==
  /\ last.op = "ingest"
  /\ last.payload.text.present
  /\ last.payload.text.val # <<>>
  /\ BlankRequestText(last.payload)
  /\ last.status = 400
  /\ Len(stored_docs) >= 1

\* C4: every provider failure (the embedding call of ingest, the query
\* embedding call of chat, the chat completion call) is answered with an
\* {ok: false, error: ...} JSON response of status 500; no exception leaves a
\* handler.
C4_ProviderFailuresCaught ==
  last.op \in {"ingest", "chat"} =>
    /\ last.kind = "json"
    /\ (last.status = 500 => (~last.ok /\ last.error # ""))

\* C6: on an empty store retrieve_top_k returns an empty sequence without any
\* remote call, so a chat request with a question makes the chat completion
\* call only, its prompt's source section says that no documents are ingested,
\* and the retrieved list of the answer is empty.
C6_EmptyStoreAsk ==
  (last.op = "chat" /\ stored_docs = <<>> /\ last.status # 400) =>
    /\ last.kind = "json"
    /\ last.calls = <<"chat">>
    /\ last.source_text.header = "No documents ingested."
    /\ last.source_text.entries = <<>>
    /\ last.retrieved = <<>>

\* A question was answered on an empty store.
C6_Witness ==
  /\ last.op = "chat"
  /\ stored_docs = <<>>
  /\ last.ok
  /\ last.status = 200

----------------------------------------------------------------------------
(* Properties of retrieve_top_k (SpecRetrieve) *)

RECURSIVE TotalChunks(_)
TotalChunks(docs) ==
  IF docs = <<>> THEN 0 ELSE Len(Head(docs).chunks) + TotalChunks(Tail(docs))

\* The place of the i-th encountered candidate in a stable descending order:
\* after every candidate of greater score and every earlier one of equal score.
RankOf(cs, i) ==
  1 + Cardinality({ j \in 1..Len(cs) : cs[j].score > cs[i].score })
    + Cardinality({ j \in 1..(i - 1) : cs[j].score = cs[i].score })

\* C5: for every store, query and k >= 0, retrieve_top_k returns exactly
\* min(k, total number of chunks) candidates; the p-th of them is the candidate
\* that has p-1 candidates before it in the order "greater score first, equal
\* scores in encounter order"; so scores never increase along the result and
\* no candidate left out has a greater score than one that is included.
C5_TopKStable ==
  (last.op = "retrieve" /\ last.kind = "return") =>
    LET cs == Candidates(stored_docs, last.q_emb)
        r  == last.retrieved
        m  == Min(last.k, TotalChunks(stored_docs))
    IN  /\ Len(r) = m
        /\ \A p \in 1..Len(r) :
             \E i \in 1..Len(cs) : RankOf(cs, i) = p /\ r[p] = cs[i]
        /\ \A p, q \in 1..Len(r) : p < q => r[p].score >= r[q].score
        /\ \A i \in 1..Len(cs) :
             RankOf(cs, i) > m => \A p \in 1..Len(r) : cs[i].score <= r[p].score

\* A call that cut candidates off, kept two of equal score and did not
\* return them in encounter order.
C5_Witness ==
  /\ last.op = "retrieve"
  /\ last.kind = "return"
  /\ LET cs == Candidates(stored_docs, last.q_emb)
         r  == last.retrieved
     IN  /\ Len(r) >= 3
         /\ Len(r) < Len(cs)
         /\ r # SubSeq(cs, 1, Len(r))
         /\ \E p \in 1..(Len(r) - 1) : r[p].score = r[p + 1].score /\ r[p] # r[p + 1]
         /\ r[1].score > r[Len(r)].score

----------------------------------------------------------------------------
(* Properties of chunk_text (SpecChunk, FairSpecChunk) *)

Ceil(n, d) == (n + d - 1) \div d

\* The run of chunk_text has returned.
Returned == ck.pc = "done"

\* C7 as stated: with the defaults, a text of 1 to max_words words gives
\* exactly one chunk, the space-joined words of the text.
C7_OneChunkUpToMaxWords ==
  (Returned /\ ck.max_words = DefaultMaxWords /\ ck.overlap = DefaultOverlap
     /\ 1 <= Len(ck.words) /\ Len(ck.words) <= ck.max_words) =>
    ck.chunks = <<Join(ck.words)>>

\* C7, amended: for 0 <= overlap < max_words, a text of 1 to
\* max_words - overlap words gives exactly one chunk, the space-joined words
\* of the text; a text of more than max_words - overlap and at most max_words
\* words gives that chunk first and at least one more chunk after it.
C7_OneChunkUpToAdvance ==
  (Returned /\ 0 <= ck.overlap /\ ck.overlap < ck.max_words /\ 1 <= Len(ck.words)) =>
    LET n    == Len(ck.words)
        step == ck.max_words - ck.overlap
    IN  /\ n <= step => ck.chunks = <<Join(ck.words)>>
        /\ (step < n /\ n <= ck.max_words) =>
             (Len(ck.chunks) >= 2 /\ ck.chunks[1] = Join(ck.words))

\* The defaults on a text of exactly max_words - overlap words: one chunk.
C7_Witness ==
  /\ Returned
  /\ ck.max_words = DefaultMaxWords
  /\ ck.overlap = DefaultOverlap
  /\ Len(ck.words) = DefaultMaxWords - DefaultOverlap
  /\ Len(ck.chunks) = 1

\* A chunk without its first `overlap` words; nothing of it when it is shorter.
DropOverlap(ws, overlap) ==
  IF Len(ws) < overlap THEN <<>> ELSE SubSeq(ws, overlap + 1, Len(ws))

\* The first chunk's words, then every later chunk's words minus the overlap.
RECURSIVE Reconstruct(_, _, _)
Reconstruct(chunks, j, overlap) ==
  IF j > Len(chunks) THEN <<>>
  ELSE (IF j = 1 THEN Split(chunks[j]) ELSE DropOverlap(Split(chunks[j]), overlap))
         \o Reconstruct(chunks, j + 1, overlap)

\* C8: for 0 <= overlap < max_words, chunk j (from 0) is the space-joined
\* words at indices [j*step, min(n, j*step + max_words)) with
\* step = max_words - overlap, for every j with j*step < n and no other;
\* every word lies in a chunk; and the first chunk followed by the later
\* chunks minus their first `overlap` words is the word sequence of the text.
C8_ChunksReconstruct ==
  (Returned /\ 0 <= ck.overlap /\ ck.overlap < ck.max_words) =>
    LET n    == Len(ck.words)
        step == ck.max_words - ck.overlap
    IN  /\ Len(ck.chunks) = Ceil(n, step)
        /\ \A j \in 0..(Len(ck.chunks) - 1) :
             /\ j * step < n
             /\ ck.chunks[j + 1] =
                  Join(SubSeq(ck.words, j * step + 1, Min(n, j * step + ck.max_words)))
        /\ \A p \in 1..n :
             \E j \in 0..(Len(ck.chunks) - 1) :
               j * step < p /\ p <= Min(n, j * step + ck.max_words)
        /\ Reconstruct(ck.chunks, 1, ck.overlap) = ck.words
        /\ ck.words = Split(ck.text)

\* Three or more overlapping chunks, the last one shorter than the overlap.
C8_Witness ==
  /\ Returned
  /\ ck.overlap >= 1
  /\ ck.overlap < ck.max_words
  /\ Len(ck.chunks) >= 3
  /\ Len(Split(ck.chunks[Len(ck.chunks)])) < ck.overlap
  /\ Len(ck.words) > ck.max_words
  /\ ck.text # Join(ck.words)

\* The word count of the text of the run.
WordCount == Len(Split(ck.text))

\* What holds of every state of a run of chunk_text.
ChunkRunInv ==
  /\ Returned => (WordCount = 0 \/ ck.overlap < ck.max_words)
  /\ (Returned /\ WordCount = 0) => (ck.iters = 0 /\ ck.chunks = <<>>)
  /\ (Returned /\ ck.overlap < ck.max_words) =>
       ck.iters = Ceil(WordCount, ck.max_words - ck.overlap)
  /\ (ck.pc = "loop" /\ ck.overlap >= ck.max_words /\ WordCount >= 1) =>
       (ck.i <= 0 /\ LoopCond(ck.words, ck.i))

\* C10: chunk_text returns exactly when the text has no words or
\* overlap < max_words. Without words it returns no chunk and never enters the
\* loop; with overlap < max_words it returns after ceil(n / (max_words -
\* overlap)) iterations; with overlap >= max_words and at least one word the
\* window start never passes the word count and the loop is never left.
C10_TerminatesIffAdvancing ==
  /\ []ChunkRunInv
  /\ (ck.pc = "call" /\ (WordCount = 0 \/ ck.overlap < ck.max_words)) ~> Returned

\* A loop with overlap > max_words that ran as long as the model lets it,
\* its window start below zero.
C10_Witness ==
  /\ ck.pc = "loop"
  /\ ck.overlap > ck.max_words
  /\ ck.iters = IterCap
  /\ ck.i < 0
  /\ Len(ck.chunks) = IterCap

----------------------------------------------------------------------------
(* Properties of concurrent ingests (SpecConc) *)

\* Two stored documents carry the same id.
DuplicateIds ==
  \E i, j \in 1..Len(stored_docs) : i # j /\ stored_docs[i].id = stored_docs[j].id

\* C9: when "read the counter into the document, append, increment" runs as
\* one unit, the ids of the stored documents are unique: the document at
\* position i has id i. (Without that, C9_Witness is reachable.)
C9_AtomicCommitUniqueIds ==
  commit_atomic =>
    /\ ~DuplicateIds
    /\ \A i \in 1..Len(stored_docs) : stored_docs[i].id = i - 1

\* Two ingests interleaved statement by statement: both have answered
\* ok with the same doc_id and the store holds two documents of that id.
C9_Witness ==
  /\ ~commit_atomic
  /\ DuplicateIds
  /\ \A t \in Threads : thr[t].pc = "idle" /\ thr[t].resp.ok
  /\ thr["t1"].resp.doc_id = thr["t2"].resp.doc_id
  /\ Len(stored_docs) = 2

====
